---- MODULE Spec2Model ----
\* Verification model of the rag-agent-chat agent core:
\*   src/src/agent/agent.py  (Agent lifecycle, guard, graph construction, nodes)
\*   src/src/config/configurer/bm25.py  (the lexical index and its rebuild)
\* Specifications sharing the module:
\*   Spec           the Agent object under cooperative (asyncio) interleaving
\*                  of restart, sync_bm25, configure, build_graph, the status
\*                  setter and the turn-serving operations;
\*   SpecLive       Spec with every started operation eventually continuing;
\*   SpecGraph      one turn walking a compiled graph, node by node;
\*   SpecRouting    the pure entry routing function applied to bounded histories;
\*   SpecBM25       concurrent rebuilds of the lexical index;
\*   SpecNormalize  the tokenizer of the index applied to bounded texts.
EXTENDS Naturals, Sequences, FiniteSets

VARIABLES
    status,         \* Agent._status
    is_configured,  \* Agent._is_configured
    config,         \* what the AgentConfigurer exposes (tools, recognizer tool)
    graph,          \* Agent._graph (NoGraph models None)
    task,           \* the calls in flight, one per task of the event loop
    lastWriter,     \* history variable: the operation that last assigned _status
    run,            \* SpecGraph: the turn being executed on a compiled graph
    rt,             \* SpecRouting: input state and result of the routing function
    nz,             \* SpecNormalize: a text, the options and its normalizations
    population,     \* SpecBM25: the documents get_all_vs_embedded() returns
    marked,         \* documents saved with embed_bm25 = True
    retriever,      \* BM25ConfigurerImpl._retriever (NoRetriever models None)
    bm25_config,    \* BM25ConfigurerImpl._config
    last_sync,      \* BM25ConfigurerImpl._last_sync (NoTime models None)
    now,            \* the clock read by get_datetime_now()
    rebuild,        \* the async_configure calls in flight
    pending         \* update_document_bm25_status tasks created and not yet run

\* the state of the lexical index and of its rebuilds
bm25vars == <<population, marked, retriever, bm25_config, last_sync, now, rebuild, pending>>

vars == <<status, is_configured, config, graph, task, lastWriter, run, rt, nz, bm25vars>>

----------------------------------------------------------------------------
\* Bounds of the model

NumTasks == 2
MaxModelCalls == 2
MaxToolCalls == 1
MaxContentLen == 2
MaxHistory == 2

MaxDocs == 2
NumRebuilds == 2
MaxTime == 2
MaxTextLen == 3

Tasks == 1..NumTasks

----------------------------------------------------------------------------
\* Configuration exposed by the configurer collaborator

ToolNames == {"search"}

\* tools_none: `self._configurer.tools is None`; recognizer: the image
\* recognizer configurer exists and its tool is not None.
Configs ==
    {c \in [tools_none : BOOLEAN, tools : SUBSET ToolNames, recognizer : BOOLEAN] :
        c.tools_none => c.tools = {}}

\* Before the first configuration the configurer exposes no tools and no recognizer.
NoConfig == [tools_none |-> TRUE, tools |-> {}, recognizer |-> FALSE]

----------------------------------------------------------------------------
\* Graph topology (langgraph StateGraph as nodes, edges and conditional branches)

START == "__start__"
END == "__end__"
ToolNodes == {"tools_1", "tools_2"}

\* None, as the value of Agent._graph
NoGraph == [nodes |-> {}, edges |-> {}, branches |-> {}, built_for |-> [none |-> TRUE, tools |-> {}]]

\* build_graph with the tool test reduced to `tools is not None`
build_graph_no_len_test(cfg) ==
    LET tools == [none |-> cfg.tools_none, tools |-> cfg.tools]
        base == {"query_or_respond", "suggest_questions"}
        entry == {<<START, "suggest_questions", "suggest_questions">>,
                  <<START, "query_or_respond", "query_or_respond">>}
    IN  IF ~cfg.tools_none
        THEN [built_for |-> tools,
              nodes |-> base \cup {"tools_1", "tools_2"},
              edges |-> {<<"tools_1", "query_or_respond">>,
                         <<"tools_2", "suggest_questions">>},
              branches |-> entry \cup
                  {<<"query_or_respond", "tools", "tools_1">>,
                   <<"query_or_respond", END, END>>,
                   <<"suggest_questions", "tools", "tools_2">>,
                   <<"suggest_questions", END, END>>}]
        ELSE [built_for |-> tools, nodes |-> base, edges |-> {}, branches |-> entry]

\* build_graph that adds the tool nodes whatever the tool list is
build_graph_always_tools(cfg) ==
    [build_graph_no_len_test([cfg EXCEPT !.tools_none = FALSE])
        EXCEPT !.built_for = [none |-> cfg.tools_none, tools |-> cfg.tools]]

\* build_graph whose tool nodes return to the other branch
build_graph_crossed(cfg) ==
    LET g == build_graph_no_len_test(cfg)
    IN  IF cfg.tools = {} THEN [g EXCEPT !.nodes = {"query_or_respond", "suggest_questions"},
                                         !.edges = {},
                                         !.branches = {b \in @ : b[1] = START}]
        ELSE [g EXCEPT !.edges = {<<"tools_1", "suggest_questions">>,
                                  <<"tools_2", "query_or_respond">>}]

\* Agent.build_graph: the compiled graph for the configurer's current tools.
\* A branch is <<source, key returned by the path function, target>>;
\* built_for is a history field: what `self._configurer.tools` was when the
\* graph was built (none: it was None; tools: the tools of the list).
build_graph(cfg) ==
    LET tools == [none |-> cfg.tools_none, tools |-> cfg.tools]
        base == {"query_or_respond", "suggest_questions"}
        entry == {<<START, "suggest_questions", "suggest_questions">>,
                  <<START, "query_or_respond", "query_or_respond">>}
    IN  IF ~cfg.tools_none /\ Cardinality(cfg.tools) # 0
        THEN [built_for |-> tools,
              nodes |-> base \cup {"tools_1", "tools_2"},
              edges |-> {<<"tools_1", "query_or_respond">>,
                         <<"tools_2", "suggest_questions">>},
              branches |-> entry \cup
                  {<<"query_or_respond", "tools", "tools_1">>,
                   <<"query_or_respond", END, END>>,
                   <<"suggest_questions", "tools", "tools_2">>,
                   <<"suggest_questions", END, END>>}]
        ELSE [built_for |-> tools, nodes |-> base, edges |-> {}, branches |-> entry]

----------------------------------------------------------------------------
\* The guard. The messages are those of the source, without its backquotes.

MsgNotConfigured == "The agent has not been configured yet. Please call configure() first."
MsgNoGraph == "The agent graph has not been initialized yet. Please call build_graph() first."
MsgOff == "The agent is turned off."
MsgRestarting == "The agent is restarting."
Available == "available"

\* check_graph_available without the RESTART test
check_graph_available_no_restart ==
    IF ~is_configured THEN MsgNotConfigured
    ELSE IF graph = NoGraph THEN MsgNoGraph
    ELSE IF status = "OFF" THEN MsgOff
    ELSE Available

\* check_graph_available without the graph test
check_graph_available_no_graph ==
    IF ~is_configured THEN MsgNotConfigured
    ELSE IF status = "OFF" THEN MsgOff
    ELSE IF status = "RESTART" THEN MsgRestarting
    ELSE Available

\* Agent.check_graph_available: the message of the RuntimeError it raises, or
\* Available when it returns.
check_graph_available ==
    IF ~is_configured THEN MsgNotConfigured
    ELSE IF graph = NoGraph THEN MsgNoGraph
    ELSE IF status = "OFF" THEN MsgOff
    ELSE IF status = "RESTART" THEN MsgRestarting
    ELSE Available

----------------------------------------------------------------------------
\* Agent lifecycle. The callers are the tasks of one asyncio event loop; a task
\* runs one Agent operation at a time. Every action is the code between two
\* suspension points (an await that reaches a collaborator, or a yield back to
\* the consumer of a generator), so actions of different tasks interleave
\* exactly where the event loop can switch.

\* The three Progress snapshots of restart(); percentage in hundredths.
statuses ==
    <<[status |-> "RESTARTING", percentage |-> 0],
      [status |-> "RESTARTING", percentage |-> 60],
      [status |-> "RESTARTED", percentage |-> 100]>>

\* A task: the operation it runs, where that operation stands, the force
\* argument of a configure(), the graph
\* reference a turn has read, the guard's outcome for a turn, and for a
\* restart() the history of what it has done so far, in program order:
\* <<"yield", k>> for the k-th snapshot, <<"configure", 1>> for the return of
\* configure(force=True), <<"build_graph", 1>> for the return of build_graph().
IdleTask ==
    [op |-> "none", pc |-> "idle", force |-> FALSE, trace |-> <<>>, graph |-> NoGraph,
     err |-> Available]

IsYield(e) == e[1] = "yield"

\* the progress snapshots a restart() has yielded so far
events(i) ==
    LET ys == SelectSeq(task[i].trace, IsYield)
    IN  [j \in 1..Len(ys) |-> statuses[ys[j][2]]]

\* Agent.__init__
InitAgent ==
    /\ status = "ON"
    /\ is_configured = FALSE
    /\ config = NoConfig
    /\ graph = NoGraph
    /\ task = [i \in Tasks |-> IdleTask]
    /\ lastWriter = <<"init", 0>>

\* a status property that reports RESTART under the name of a progress snapshot
AgentStatus_progress_name ==
    [status |-> IF status = "RESTART" THEN "RESTARTING" ELSE status]

\* The status property: the snapshot AgentStatus(status=self._status, ...);
\* its other two fields are read from the configurer and are left out.
AgentStatus == [status |-> status]

\* status.setter: a caller assigns ON or OFF
SetStatus(value) ==
    /\ status' = value
    /\ lastWriter' = <<"setter", 0>>
    /\ UNCHANGED <<is_configured, config, graph, task, run, rt, nz, bm25vars>>

\* configure that awaits the collaborator whatever the agent's state
ConfigureCall_no_skip(i, force) ==
    /\ task[i].pc = "idle"
    /\ task' = [task EXCEPT ![i].op = "configure", ![i].force = force, ![i].pc = "awaiting"]
    /\ UNCHANGED <<status, is_configured, config, graph, lastWriter, run, rt, nz, bm25vars>>

\* configure(force), up to the await of the configuration collaborator; the
\* call returns at once when the agent is configured and force is not set.
ConfigureCall(i, force) ==
    /\ task[i].pc = "idle"
    /\ task' = [task EXCEPT ![i].op = "configure",
                            ![i].force = force,
                            ![i].pc = IF is_configured /\ ~force THEN "skipped" ELSE "awaiting"]
    /\ UNCHANGED <<status, is_configured, config, graph, lastWriter, run, rt, nz, bm25vars>>

\* the collaborator returns: the configurer exposes the loaded configuration
\* and the agent is marked configured
ConfigureReturn(i) ==
    /\ task[i].op = "configure" /\ task[i].pc = "awaiting"
    /\ \E cfg \in Configs : config' = cfg
    /\ is_configured' = TRUE
    /\ task' = [task EXCEPT ![i].pc = "done"]
    /\ UNCHANGED <<status, graph, lastWriter, run, rt, nz, bm25vars>>

\* the collaborator raises: configure propagates the exception
ConfigureFail(i) ==
    /\ task[i].op = "configure" /\ task[i].pc = "awaiting"
    /\ task' = [task EXCEPT ![i].pc = "failed"]
    /\ UNCHANGED <<status, is_configured, config, graph, lastWriter, run, rt, nz, bm25vars>>

\* build_graph() that rebuilds the compiled graph object in place, so that
\* the turns holding a reference to it see the new topology
BuildGraph_in_place ==
    /\ graph' = build_graph(config)
    /\ task' = [i \in Tasks |->
                    IF task[i].op = "turn" /\ task[i].pc = "running"
                    THEN [task[i] EXCEPT !.graph = build_graph(config)]
                    ELSE task[i]]
    /\ UNCHANGED <<status, is_configured, config, lastWriter, run, rt, nz, bm25vars>>

\* build_graph() called directly (synchronous). The method reads the
\* configurer and never tests _is_configured, so it is enabled in every state.
BuildGraph ==
    /\ graph' = build_graph(config)
    /\ UNCHANGED <<status, is_configured, config, task, lastWriter, run, rt, nz, bm25vars>>

\* restart() that emits the 60% snapshot before reconfiguring
RestartBegin_early_yield(i) ==
    /\ task[i].op = "restart" /\ task[i].pc = "y0"
    /\ status' = "RESTART"
    /\ lastWriter' = <<"task", i>>
    /\ task' = [task EXCEPT ![i].pc = "configuring",
                            ![i].trace = Append(@, <<"yield", 2>>)]
    /\ UNCHANGED <<is_configured, config, graph, run, rt, nz, bm25vars>>

\* restart() that leaves status at RESTART after the rebuild
RestartBuild_no_on(i) ==
    /\ task[i].op = "restart" /\ task[i].pc = "y1"
    /\ graph' = build_graph(config)
    /\ task' = [task EXCEPT ![i].pc = "y2",
                            ![i].trace = @ \o <<<<"build_graph", 1>>, <<"yield", 3>>>>]
    /\ UNCHANGED <<status, lastWriter, is_configured, config, run, rt, nz, bm25vars>>

\* restart() that reconfigures without assigning RESTART
RestartBegin_no_status(i) ==
    /\ task[i].op = "restart" /\ task[i].pc = "y0"
    /\ task' = [task EXCEPT ![i].pc = "configuring"]
    /\ UNCHANGED <<status, lastWriter, is_configured, config, graph, run, rt, nz, bm25vars>>

\* restart(): the generator runs to its first yield (0%)
RestartCall(i) ==
    /\ task[i].pc = "idle"
    /\ task' = [task EXCEPT ![i].op = "restart", ![i].pc = "y0",
                            ![i].trace = <<<<"yield", 1>>>>]
    /\ UNCHANGED <<status, is_configured, config, graph, lastWriter, run, rt, nz, bm25vars>>

\* resumed after the first yield: status RESTART, then configure(force=True)
\* up to the await of the collaborator
RestartBegin(i) ==
    /\ task[i].op = "restart" /\ task[i].pc = "y0"
    /\ status' = "RESTART"
    /\ lastWriter' = <<"task", i>>
    /\ task' = [task EXCEPT ![i].pc = "configuring"]
    /\ UNCHANGED <<is_configured, config, graph, run, rt, nz, bm25vars>>

\* the collaborator returns: marked configured, second yield (60%)
RestartConfigured(i) ==
    /\ task[i].op = "restart" /\ task[i].pc = "configuring"
    /\ \E cfg \in Configs : config' = cfg
    /\ is_configured' = TRUE
    /\ task' = [task EXCEPT ![i].pc = "y1",
                            ![i].trace = @ \o <<<<"configure", 1>>, <<"yield", 2>>>>]
    /\ UNCHANGED <<status, graph, lastWriter, run, rt, nz, bm25vars>>

\* the collaborator raises: the exception leaves the generator, status stays
RestartConfigureFail(i) ==
    /\ task[i].op = "restart" /\ task[i].pc = "configuring"
    /\ task' = [task EXCEPT ![i].pc = "failed"]
    /\ UNCHANGED <<status, is_configured, config, graph, lastWriter, run, rt, nz, bm25vars>>

\* resumed after the second yield: build_graph(), status ON, third yield (100%)
RestartBuild(i) ==
    /\ task[i].op = "restart" /\ task[i].pc = "y1"
    /\ graph' = build_graph(config)
    /\ status' = "ON"
    /\ lastWriter' = <<"task", i>>
    /\ task' = [task EXCEPT ![i].pc = "y2",
                            ![i].trace = @ \o <<<<"build_graph", 1>>, <<"yield", 3>>>>]
    /\ UNCHANGED <<is_configured, config, run, rt, nz, bm25vars>>

\* resumed after the third yield: the generator is exhausted
RestartFinish(i) ==
    /\ task[i].op = "restart" /\ task[i].pc = "y2"
    /\ task' = [task EXCEPT ![i].pc = "done"]
    /\ UNCHANGED <<status, is_configured, config, graph, lastWriter, run, rt, nz, bm25vars>>

\* sync_bm25() that does not set RESTART before the rebuild
SyncCall_no_restart(i) ==
    /\ task[i].pc = "idle"
    /\ lastWriter' = <<"task", i>>
    /\ task' = [task EXCEPT ![i].op = "sync_bm25", ![i].pc = "rebuilding"]
    /\ UNCHANGED <<status, is_configured, config, graph, run, rt, nz, bm25vars>>

\* sync_bm25(): status RESTART, then the await of the lexical-index rebuild
SyncCall(i) ==
    /\ task[i].pc = "idle"
    /\ status' = "RESTART"
    /\ lastWriter' = <<"task", i>>
    /\ task' = [task EXCEPT ![i].op = "sync_bm25", ![i].pc = "rebuilding"]
    /\ UNCHANGED <<is_configured, config, graph, run, rt, nz, bm25vars>>

\* the rebuild returns: status ON
SyncReturn(i) ==
    /\ task[i].op = "sync_bm25" /\ task[i].pc = "rebuilding"
    /\ status' = "ON"
    /\ lastWriter' = <<"task", i>>
    /\ task' = [task EXCEPT ![i].pc = "done"]
    /\ UNCHANGED <<is_configured, config, graph, run, rt, nz, bm25vars>>

\* the rebuild raises: sync_bm25 propagates the exception, status stays
SyncFail(i) ==
    /\ task[i].op = "sync_bm25" /\ task[i].pc = "rebuilding"
    /\ task' = [task EXCEPT ![i].pc = "failed"]
    /\ UNCHANGED <<status, is_configured, config, graph, lastWriter, run, rt, nz, bm25vars>>

\* The common start of the four turn-serving operations: the guard, then the
\* read of the graph reference, with no suspension point between them. The
\* guard's RuntimeError ends the call; otherwise the call uses the graph,
\* to the end when it is synchronous and until TurnFinish when it awaits.
TurnStart(i, synchronous) ==
    /\ task[i].pc = "idle"
    /\ LET res == check_graph_available
       IN  task' = [task EXCEPT ![i] =
                IF res # Available
                THEN [IdleTask EXCEPT !.op = "turn", !.pc = "failed", !.err = res]
                ELSE [IdleTask EXCEPT !.op = "turn", !.graph = graph,
                                      !.pc = IF synchronous THEN "done" ELSE "running"]]
    /\ UNCHANGED <<status, is_configured, config, graph, lastWriter, run, rt, nz, bm25vars>>

\* stream(): guard, then iteration of graph.stream
stream(i) == TurnStart(i, FALSE)

\* astream(): guard, then iteration of graph.astream
astream(i) == TurnStart(i, FALSE)

\* get_state_history(): guard, then iteration of graph.aget_state_history
get_state_history(i) == TurnStart(i, FALSE)

\* get_state(): guard, then graph.get_state
get_state(i) == TurnStart(i, TRUE)

\* the graph run of a live turn ends
TurnFinish(i) ==
    /\ task[i].op = "turn" /\ task[i].pc = "running"
    /\ task' = [task EXCEPT ![i].pc = "done"]
    /\ UNCHANGED <<status, is_configured, config, graph, lastWriter, run, rt, nz, bm25vars>>

\* the caller is done with a finished call and the task is free again
Release(i) ==
    /\ task[i].pc \in {"done", "failed", "skipped"}
    /\ task' = [task EXCEPT ![i] = IdleTask]
    /\ UNCHANGED <<status, is_configured, config, graph, lastWriter, run, rt, nz, bm25vars>>

----------------------------------------------------------------------------
\* Conversation state and the entry routing function

Chars == {" ", "a"}
Kinds == {"human", "ai", "tool"}
NoAttachment == "None"
Attachments == {NoAttachment, "image/png"}

Contents == UNION {[1..n -> Chars] : n \in 0..MaxContentLen}

Last(seq) == seq[Len(seq)]

RECURSIVE lstrip(_)
\* str.lstrip: drop the leading whitespace
lstrip(s) == IF Len(s) > 0 /\ Head(s) = " " THEN lstrip(Tail(s)) ELSE s

RECURSIVE rstrip(_)
\* str.rstrip: drop the trailing whitespace
rstrip(s) == IF Len(s) > 0 /\ Last(s) = " " THEN rstrip(SubSeq(s, 1, Len(s) - 1)) ELSE s

\* str.strip
strip(s) == rstrip(lstrip(s))

\* the routing function with the content tested without strip()
_routing_function_no_strip(state) ==
    LET latest_messages == Last(state.messages)
    IN  IF latest_messages.kind # "human" \/ Len(latest_messages.content) = 0
        THEN "suggest_questions"
        ELSE "query_or_respond"

\* _routing_function(state)
_routing_function(state) ==
    LET latest_messages == Last(state.messages)
    IN  IF latest_messages.kind # "human" \/ Len(strip(latest_messages.content)) = 0
        THEN "suggest_questions"
        ELSE "query_or_respond"

\* Inputs of the routing function: histories of 1..MaxHistory messages
RoutingMessages == [kind : Kinds, content : Contents, tool_calls : {0}]
RoutingInputs ==
    [messages : UNION {[1..n -> RoutingMessages] : n \in 1..MaxHistory},
     attachment : Attachments]

IdleRt == [state |-> [messages |-> <<>>, attachment |-> NoAttachment], result |-> "none"]

\* the routing function is applied to the input state
ApplyRouting ==
    /\ rt.result = "none"
    /\ Len(rt.state.messages) > 0
    /\ rt' = [rt EXCEPT !.result = _routing_function(rt.state)]
    /\ UNCHANGED <<status, is_configured, config, graph, task, lastWriter, run, nz, bm25vars>>

----------------------------------------------------------------------------
\* One turn on a compiled graph. The chat model is an opaque collaborator:
\* its reply carries any number of tool calls in 0..MaxToolCalls.

\* Prompt variants of the two nodes
Refusal == "cannot recognize the attachment"
ProcessingError == "error while processing the attachment"
RespondAttachment == "respond_prompt + messages + ATTACHMENT_INSTRUCTION"
RespondToolResult == "messages + tell me what you think"
RespondPlain == "respond_prompt + messages"
SuggestToolResult == "messages + think and suggest questions"
SuggestAttachment == "suggest_questions_prompt + messages + ATTACHMENT_INSTRUCTION"

\* the prompt choice that tests the kind of the last message first
query_or_respond_prompt_tool_first(state, cfg) ==
    IF Last(state.messages).kind = "tool" THEN RespondToolResult
    ELSE IF state.attachment # NoAttachment /\ ~cfg.recognizer THEN Refusal
    ELSE IF state.attachment # NoAttachment THEN RespondAttachment
    ELSE RespondPlain

\* _query_or_respond: the prompt template chosen for the state
query_or_respond_prompt(state, cfg) ==
    IF state.attachment # NoAttachment /\ ~cfg.recognizer THEN Refusal
    ELSE IF state.attachment # NoAttachment THEN RespondAttachment
    ELSE IF Last(state.messages).kind = "tool" THEN RespondToolResult
    ELSE RespondPlain

\* the prompt choice that treats a missing attachment as a plain request
suggest_questions_prompt_respond(state, cfg) ==
    IF state.attachment = NoAttachment THEN RespondPlain
    ELSE IF ~cfg.recognizer THEN Refusal
    ELSE IF Last(state.messages).kind = "tool" THEN SuggestToolResult
    ELSE SuggestAttachment

\* _suggest_questions: the prompt template chosen for the state
suggest_questions_prompt(state, cfg) ==
    IF state.attachment = NoAttachment THEN ProcessingError
    ELSE IF ~cfg.recognizer THEN Refusal
    ELSE IF Last(state.messages).kind = "tool" THEN SuggestToolResult
    ELSE SuggestAttachment

\* tools_condition that routes a reply with tool calls to the end
tools_condition_inverted(messages) ==
    IF Last(messages).kind = "ai" /\ Last(messages).tool_calls > 0 THEN END ELSE "tools"

\* langgraph.prebuilt.tools_condition: "tools" when the last message is an AI
\* message with tool calls, END otherwise
tools_condition(messages) ==
    IF Last(messages).kind = "ai" /\ Last(messages).tool_calls > 0 THEN "tools" ELSE END

\* The node that follows node n in graph g: the target of n's conditional
\* branch for the key its path function returns, else the target of n's plain
\* edge, else the end (a node without outgoing edges finishes the run).
next_node(g, n, state) ==
    IF \E b \in g.branches : b[1] = n
    THEN LET key == IF n = START THEN _routing_function(state)
                    ELSE tools_condition(state.messages)
         IN  (CHOOSE b \in g.branches : b[1] = n /\ b[2] = key)[3]
    ELSE IF \E e \in g.edges : e[1] = n
    THEN (CHOOSE e \in g.edges : e[1] = n)[2]
    ELSE END

IdleRun ==
    [graph |-> NoGraph, node |-> "none", pc |-> "idle", input |-> <<>>,
     messages |-> <<>>, attachment |-> NoAttachment, prompt |-> "none",
     calls |-> 0, tool_runs |-> 0]

RunState == [messages |-> run.messages, attachment |-> run.attachment]

\* Inputs of a turn: a one-message history and an optional attachment
TurnInputs ==
    [messages : [1..1 -> [kind : Kinds, content : {<<>>, <<" ">>, <<"a">>}, tool_calls : {0}]],
     attachment : Attachments]

\* START: the conditional entry edge
Route ==
    /\ run.pc = "ready"
    /\ run.node = START
    /\ run' = [run EXCEPT !.node = next_node(run.graph, START, RunState)]
    /\ UNCHANGED <<status, is_configured, config, graph, task, lastWriter, rt, nz, bm25vars>>

\* a node starts: it chooses its prompt and awaits chat_model.ainvoke
NodeInvoke ==
    /\ run.pc = "ready"
    /\ run.node \in {"query_or_respond", "suggest_questions"}
    /\ run.calls < MaxModelCalls
    /\ run' = [run EXCEPT
            !.pc = "model",
            !.calls = @ + 1,
            !.prompt = IF run.node = "query_or_respond"
                       THEN query_or_respond_prompt(RunState, config)
                       ELSE suggest_questions_prompt(RunState, config)]
    /\ UNCHANGED <<status, is_configured, config, graph, task, lastWriter, rt, nz, bm25vars>>

\* the model replies: the node returns {"messages": [response]}, the reply is
\* appended and the node's outgoing edge is taken
ModelReturn(k) ==
    /\ run.pc = "model"
    /\ LET response == [kind |-> "ai", content |-> <<"a">>, tool_calls |-> k]
           after == [messages |-> Append(run.messages, response),
                     attachment |-> run.attachment]
           target == next_node(run.graph, run.node, after)
       IN  run' = [run EXCEPT !.messages = after.messages,
                              !.node = target,
                              !.pc = IF target = END THEN "ended" ELSE "ready"]
    /\ UNCHANGED <<status, is_configured, config, graph, task, lastWriter, rt, nz, bm25vars>>

\* the failure that leaves an error message in the history
ModelFail_partial ==
    /\ run.pc = "model"
    /\ run' = [run EXCEPT !.pc = "failed",
                          !.messages = Append(@, [kind |-> "ai", content |-> <<>>,
                                                   tool_calls |-> 0])]
    /\ UNCHANGED <<status, is_configured, config, graph, task, lastWriter, rt, nz, bm25vars>>

\* the model call raises: the exception leaves the node and aborts the run
ModelFail ==
    /\ run.pc = "model"
    /\ run' = [run EXCEPT !.pc = "failed"]
    /\ UNCHANGED <<status, is_configured, config, graph, task, lastWriter, rt, nz, bm25vars>>

\* a ToolNode runs: one tool message per pending tool call, then its edge
\* back to the node that issued the calls
ToolsRun ==
    /\ run.pc = "ready"
    /\ run.node \in ToolNodes
    /\ LET n == Last(run.messages).tool_calls
           results == [i \in 1..n |-> [kind |-> "tool", content |-> <<"a">>, tool_calls |-> 0]]
           after == [messages |-> run.messages \o results, attachment |-> run.attachment]
       IN  run' = [run EXCEPT !.messages = after.messages,
                              !.node = next_node(run.graph, run.node, after),
                              !.tool_runs = @ + 1]
    /\ UNCHANGED <<status, is_configured, config, graph, task, lastWriter, rt, nz, bm25vars>>

----------------------------------------------------------------------------
\* The lexical (BM25) index and its rebuild, BM25ConfigurerImpl.async_configure.
\* A document of the repository is a record: its source, for an EXTERNAL one
\* the vector store it names and the number of its chunks embedded there, for
\* an UPLOADED one whether the file service resolves its file. A passage is
\* <<document, chunk>>, chunk 0 standing for the converted file of an
\* UPLOADED document.

UPLOADED == "UPLOADED"
EXTERNAL == "EXTERNAL"

\* the store names vs_configurer.get_store() knows, and those documents name
ConfiguredStores == {"s1"}
StoreNames == {"s1", "unknown"}

DocumentRecords ==
    [source : {UPLOADED}, embed_to_vs : {"none"}, chunks : {0}, resolves : BOOLEAN]
    \cup [source : {EXTERNAL}, embed_to_vs : StoreNames, chunks : {2}, resolves : {FALSE}]

Populations == UNION {[1..n -> DocumentRecords] : n \in 0..MaxDocs}

\* the config argument of async_configure
BM25Configurations == {[k |-> "k1"], [k |-> "k2"]}
NoBM25Config == [k |-> "None"]

\* None as the value of _retriever; a retriever is the passages it was built
\* from and the k it was built with
NoRetriever == [none |-> TRUE, documents |-> <<>>, k |-> "None"]

\* None as the value of _last_sync
NoTime == 0

Rebuilds == 1..NumRebuilds

IdleRebuild ==
    [pc |-> "idle", config |-> NoBM25Config, db_docs |-> <<>>, err |-> "none"]

\* the positions in docs of the documents of a source, in order
OfSource(docs, source) ==
    LET Is(i) == docs[i].source = source
    IN  SelectSeq([i \in 1..Len(docs) |-> i], Is)

\* get_from_uploaded_docs: one passage per document whose file metadata
\* resolved (the lookups that returned None are filtered out)
RECURSIVE get_from_uploaded_docs(_, _)
get_from_uploaded_docs(docs, ids) ==
    IF ids = <<>> THEN <<>>
    ELSE (IF docs[Head(ids)].resolves THEN <<<<Head(ids), 0>>>> ELSE <<>>)
            \o get_from_uploaded_docs(docs, Tail(ids))

\* get_from_external_docs: the chunks of each document fetched by id from the
\* store it names; a document naming a store that is not configured is
\* skipped with a warning
RECURSIVE get_from_external_docs(_, _)
get_from_external_docs(docs, ids) ==
    IF ids = <<>> THEN <<>>
    ELSE (IF docs[Head(ids)].embed_to_vs \in ConfiguredStores
          THEN [c \in 1..docs[Head(ids)].chunks |-> <<Head(ids), c>>]
          ELSE <<>>)
            \o get_from_external_docs(docs, Tail(ids))

\* chunk_tasks: one task per non-empty source, UPLOADED first
chunk_tasks(docs) ==
    (IF Len(OfSource(docs, UPLOADED)) > 0 THEN <<UPLOADED>> ELSE <<>>)
        \o (IF Len(OfSource(docs, EXTERNAL)) > 0 THEN <<EXTERNAL>> ELSE <<>>)

\* docs: the results of the chunk tasks, concatenated in task order
Gathered(docs) ==
    get_from_uploaded_docs(docs, OfSource(docs, UPLOADED))
        \o get_from_external_docs(docs, OfSource(docs, EXTERNAL))

\* a sub-fetch exists that can raise: a file lookup or conversion, or
\* aget_by_ids on a configured store
HasFetch(docs) ==
    \E i \in 1..Len(docs) :
        docs[i].source = UPLOADED \/ docs[i].embed_to_vs \in ConfiguredStores

\* BM25ConfigurerImpl.__init__
InitBM25 ==
    /\ population \in Populations
    /\ marked = {}
    /\ retriever = NoRetriever
    /\ bm25_config = NoBM25Config
    /\ last_sync = NoTime
    /\ now = 1
    /\ rebuild = [p \in Rebuilds |-> IdleRebuild]
    /\ pending = {}

\* the state of the agent, of the turn and of the pure functions, untouched
\* by the rebuild
agentvars == <<status, is_configured, config, graph, task, lastWriter, run, rt, nz>>

\* async_configure(config), up to the await of the embeddings configurer
RebuildCall(p, cfg) ==
    /\ rebuild[p].pc = "idle"
    /\ rebuild' = [rebuild EXCEPT ![p] = [IdleRebuild EXCEPT !.pc = "embedding",
                                                             !.config = cfg]]
    /\ UNCHANGED <<population, marked, retriever, bm25_config, last_sync, now, pending>>
    /\ UNCHANGED agentvars

\* the embeddings model is there: await get_all_vs_embedded()
EmbeddingsReturn(p) ==
    /\ rebuild[p].pc = "embedding"
    /\ rebuild' = [rebuild EXCEPT ![p].pc = "loading"]
    /\ UNCHANGED <<population, marked, retriever, bm25_config, last_sync, now, pending>>
    /\ UNCHANGED agentvars

\* the embeddings configurer raises, or get_model returns None: ValueError
EmbeddingsFail(p) ==
    /\ rebuild[p].pc = "embedding"
    /\ rebuild' = [rebuild EXCEPT ![p].pc = "failed", ![p].err = "embeddings"]
    /\ UNCHANGED <<population, marked, retriever, bm25_config, last_sync, now, pending>>
    /\ UNCHANGED agentvars

\* the load that installs an empty index when there is no document
DocsLoaded_install_empty(p) ==
    /\ rebuild[p].pc = "loading"
    /\ rebuild' = [rebuild EXCEPT ![p].db_docs = population,
                                  ![p].pc = IF Len(population) <= 0 THEN "done"
                                            ELSE "gathering"]
    /\ IF Len(population) <= 0
       THEN /\ retriever' = [none |-> FALSE, documents |-> <<>>, k |-> rebuild[p].config.k]
            /\ bm25_config' = rebuild[p].config
            /\ last_sync' = now
       ELSE UNCHANGED <<retriever, bm25_config, last_sync>>
    /\ UNCHANGED <<population, marked, now, pending>>
    /\ UNCHANGED agentvars

\* db_docs is back: return at once when it is empty, else enter the task
\* group of the two chunk tasks
DocsLoaded(p) ==
    /\ rebuild[p].pc = "loading"
    /\ rebuild' = [rebuild EXCEPT ![p].db_docs = population,
                                  ![p].pc = IF Len(population) <= 0 THEN "noop"
                                            ELSE "gathering"]
    /\ UNCHANGED <<population, marked, retriever, bm25_config, last_sync, now, pending>>
    /\ UNCHANGED agentvars

\* the repository raises
DocsFail(p) ==
    /\ rebuild[p].pc = "loading"
    /\ rebuild' = [rebuild EXCEPT ![p].pc = "failed", ![p].err = "repository"]
    /\ UNCHANGED <<population, marked, retriever, bm25_config, last_sync, now, pending>>
    /\ UNCHANGED agentvars

\* the install that does not assign _last_sync
GatherReturn_no_stamp(p) ==
    /\ rebuild[p].pc = "gathering"
    /\ LET docs == rebuild[p].db_docs
           chunks == Gathered(docs)
       IN  IF Len(chunk_tasks(docs)) > 0
           THEN IF Len(chunks) = 0
                THEN /\ rebuild' = [rebuild EXCEPT ![p].pc = "failed",
                                                   ![p].err = "from_documents"]
                     /\ UNCHANGED <<retriever, bm25_config, pending>>
                ELSE /\ retriever' = [none |-> FALSE, documents |-> chunks,
                                      k |-> rebuild[p].config.k]
                     /\ bm25_config' = rebuild[p].config
                     /\ pending' = pending \cup {[by |-> p, ids |-> 1..Len(docs)]}
                     /\ rebuild' = [rebuild EXCEPT ![p].pc = "done"]
           ELSE /\ rebuild' = [rebuild EXCEPT ![p].pc = "noop"]
                /\ UNCHANGED <<retriever, bm25_config, pending>>
    /\ UNCHANGED <<population, marked, now, last_sync>>
    /\ UNCHANGED agentvars

\* the install that assigns _last_sync before the index is built
GatherReturn_stamp_first(p) ==
    /\ rebuild[p].pc = "gathering"
    /\ LET docs == rebuild[p].db_docs
           chunks == Gathered(docs)
       IN  IF Len(chunk_tasks(docs)) > 0
           THEN IF Len(chunks) = 0
                THEN /\ rebuild' = [rebuild EXCEPT ![p].pc = "failed",
                                                   ![p].err = "from_documents"]
                     /\ last_sync' = now
                     /\ UNCHANGED <<retriever, bm25_config, pending>>
                ELSE /\ retriever' = [none |-> FALSE, documents |-> chunks,
                                      k |-> rebuild[p].config.k]
                     /\ bm25_config' = rebuild[p].config
                     /\ pending' = pending \cup {[by |-> p, ids |-> 1..Len(docs)]}
                     /\ last_sync' = now
                     /\ rebuild' = [rebuild EXCEPT ![p].pc = "done"]
           ELSE /\ rebuild' = [rebuild EXCEPT ![p].pc = "noop"]
                /\ UNCHANGED <<retriever, bm25_config, pending, last_sync>>
    /\ UNCHANGED <<population, marked, now>>
    /\ UNCHANGED agentvars

\* The task group is done and no sub-fetch raised; the rest of the function
\* has no suspension point. With at least one chunk task the gathered
\* passages are split and BM25Retriever.from_documents builds the index,
\* which raises ValueError on an empty list; then _retriever and _config are
\* assigned, the bookkeeping task is created and _last_sync is assigned.
\* (retriever.documents names the passages the indexed chunks were split from.)
GatherReturn(p) ==
    /\ rebuild[p].pc = "gathering"
    /\ LET docs == rebuild[p].db_docs
           chunks == Gathered(docs)
       IN  IF Len(chunk_tasks(docs)) > 0
           THEN IF Len(chunks) = 0
                THEN /\ rebuild' = [rebuild EXCEPT ![p].pc = "failed",
                                                   ![p].err = "from_documents"]
                     /\ UNCHANGED <<retriever, bm25_config, pending, last_sync>>
                ELSE /\ retriever' = [none |-> FALSE, documents |-> chunks,
                                      k |-> rebuild[p].config.k]
                     /\ bm25_config' = rebuild[p].config
                     /\ pending' = pending \cup {[by |-> p, ids |-> 1..Len(docs)]}
                     /\ last_sync' = now
                     /\ rebuild' = [rebuild EXCEPT ![p].pc = "done"]
           ELSE /\ rebuild' = [rebuild EXCEPT ![p].pc = "noop"]
                /\ UNCHANGED <<retriever, bm25_config, pending, last_sync>>
    /\ UNCHANGED <<population, marked, now>>
    /\ UNCHANGED agentvars

\* the failure that leaves behind an index of the passages gathered before
\* the sub-fetch raised
GatherFail_partial(p) ==
    /\ rebuild[p].pc = "gathering"
    /\ HasFetch(rebuild[p].db_docs)
    /\ rebuild' = [rebuild EXCEPT ![p].pc = "failed", ![p].err = "fetch"]
    /\ retriever' = [none |-> FALSE,
                     documents |-> get_from_uploaded_docs(rebuild[p].db_docs,
                                        OfSource(rebuild[p].db_docs, UPLOADED)),
                     k |-> rebuild[p].config.k]
    /\ UNCHANGED <<population, marked, bm25_config, last_sync, now, pending>>
    /\ UNCHANGED agentvars

\* a sub-fetch raises (file lookup, conversion, or aget_by_ids): the task
\* group cancels its siblings and the exception leaves async_configure
GatherFail(p) ==
    /\ rebuild[p].pc = "gathering"
    /\ HasFetch(rebuild[p].db_docs)
    /\ rebuild' = [rebuild EXCEPT ![p].pc = "failed", ![p].err = "fetch"]
    /\ UNCHANGED <<population, marked, retriever, bm25_config, last_sync, now, pending>>
    /\ UNCHANGED agentvars

\* update_document_bm25_status runs: embed_bm25 = True on every document of
\* db_docs, then save_all
Bookkeeping(t) ==
    /\ t \in pending
    /\ marked' = marked \cup {d \in t.ids : d <= Len(population)}
    /\ pending' = pending \ {t}
    /\ UNCHANGED <<population, retriever, bm25_config, last_sync, now, rebuild>>
    /\ UNCHANGED agentvars

\* the bookkeeping failure that takes the installed index back
BookkeepingFail_rollback(t) ==
    /\ t \in pending
    /\ pending' = pending \ {t}
    /\ retriever' = NoRetriever
    /\ last_sync' = NoTime
    /\ UNCHANGED <<population, marked, bm25_config, now, rebuild>>
    /\ UNCHANGED agentvars

\* save_all raises inside the task: nobody awaits it, nothing is saved
BookkeepingFail(t) ==
    /\ t \in pending
    /\ pending' = pending \ {t}
    /\ UNCHANGED <<population, marked, retriever, bm25_config, last_sync, now, rebuild>>
    /\ UNCHANGED agentvars

\* time passes
Tick ==
    /\ now < MaxTime
    /\ now' = now + 1
    /\ UNCHANGED <<population, marked, retriever, bm25_config, last_sync, rebuild, pending>>
    /\ UNCHANGED agentvars

\* the documents are deleted from the repository
DocumentsDeleted ==
    /\ Len(population) > 0
    /\ population' = <<>>
    /\ marked' = {}
    /\ UNCHANGED <<retriever, bm25_config, last_sync, now, rebuild, pending>>
    /\ UNCHANGED agentvars

\* the caller is done with a finished rebuild
ReleaseRebuild(p) ==
    /\ rebuild[p].pc \in {"done", "failed", "noop"}
    /\ rebuild' = [rebuild EXCEPT ![p] = IdleRebuild]
    /\ UNCHANGED <<population, marked, retriever, bm25_config, last_sync, now, pending>>
    /\ UNCHANGED agentvars

----------------------------------------------------------------------------
\* The tokenizer handed to the index, preprocess (the TextNormalizer). A text
\* is a sequence of characters: letters in two cases, the space, punctuation
\* and an emoji glyph. TextPreprocessing is modelled from the description of
\* the normalizer: emoji and emoticon glyphs are stripped, and the tokens
\* present in the stop-word set are removed.

NChars == {"a", "b", "A", " ", ":", ")", "emoji"}
Texts == UNION {[1..n -> NChars] : n \in 0..MaxTextLen}

\* config.enable_remove_emoji, config.enable_remove_emoticon, and whether a
\* removal-words file is configured (helper is not None)
NormalizeOptions ==
    [enable_remove_emoji : BOOLEAN, enable_remove_emoticon : BOOLEAN, helper : BOOLEAN]

\* str.lower
lower(text) == [i \in 1..Len(text) |-> IF text[i] = "A" THEN "a" ELSE text[i]]

\* string.punctuation
Punctuation == {":", ")"}

\* translate(str.maketrans('', '', string.punctuation))
remove_punctuation(text) ==
    LET Keep(c) == c \notin Punctuation
    IN  SelectSeq(text, Keep)

\* the emoji glyphs
Emoji == {"emoji"}

\* TextPreprocessing.remove_emoji: the emoji glyphs are stripped
remove_emoji(text) ==
    LET Keep(c) == c \notin Emoji
    IN  SelectSeq(text, Keep)

\* the emoticon glyphs
Emoticons == {<<":", ")">>}

\* an emoticon the text starts with
EmoticonAt(text) ==
    {e \in Emoticons : Len(e) <= Len(text) /\ SubSeq(text, 1, Len(e)) = e}

\* TextPreprocessing.remove_emoticons: the emoticon glyphs are stripped, left
\* to right
RECURSIVE remove_emoticons(_)
remove_emoticons(text) ==
    IF text = <<>> THEN <<>>
    ELSE IF EmoticonAt(text) # {}
         THEN LET e == CHOOSE x \in EmoticonAt(text) : TRUE
              IN  remove_emoticons(SubSeq(text, Len(e) + 1, Len(text)))
         ELSE <<Head(text)>> \o remove_emoticons(Tail(text))

\* the first token of a text that starts with no whitespace
RECURSIVE first_token(_)
first_token(text) ==
    IF text = <<>> \/ Head(text) = " " THEN <<>>
    ELSE <<Head(text)>> \o first_token(Tail(text))

\* str.split(): the maximal runs of characters other than whitespace
RECURSIVE split(_)
split(text) ==
    IF text = <<>> THEN <<>>
    ELSE IF Head(text) = " " THEN split(Tail(text))
         ELSE LET t == first_token(text)
              IN  <<t>> \o split(SubSeq(text, Len(t) + 1, Len(text)))

\* ' '.join(tokens)
RECURSIVE join(_)
join(tokens) ==
    IF tokens = <<>> THEN <<>>
    ELSE IF Len(tokens) = 1 THEN Head(tokens)
         ELSE Head(tokens) \o <<" ">> \o join(Tail(tokens))

\* the words loaded from the removal-words file
StopWords == {<<"a">>, <<"a", "b">>}

\* TextPreprocessing.remove_words: the tokens present in the stop-word set
\* are removed
remove_words(text) ==
    LET Keep(t) == t \notin StopWords
    IN  join(SelectSeq(split(text), Keep))

\* the tokenizer that removes the stop words before lower-casing
preprocess_words_first(text, options) ==
    LET t0 == IF options.helper THEN remove_words(text) ELSE text
        t1 == remove_punctuation(lower(t0))
        t2 == IF options.enable_remove_emoji THEN remove_emoji(t1) ELSE t1
        t3 == IF options.enable_remove_emoticon THEN remove_emoticons(t2) ELSE t2
    IN  split(t3)

\* preprocess(text)
preprocess(text, options) ==
    LET t1 == remove_punctuation(lower(text))
        t2 == IF options.enable_remove_emoji THEN remove_emoji(t1) ELSE t1
        t3 == IF options.enable_remove_emoticon THEN remove_emoticons(t2) ELSE t2
        t4 == IF options.helper THEN remove_words(t3) ELSE t3
    IN  split(t4)

IdleNz ==
    [text |-> <<>>,
     options |-> [enable_remove_emoji |-> FALSE, enable_remove_emoticon |-> FALSE,
                  helper |-> FALSE],
     tokens |-> <<>>, again |-> <<>>, pc |-> "idle"]

\* the index tokenizes a text
Normalize ==
    /\ nz.pc = "text"
    /\ nz' = [nz EXCEPT !.tokens = preprocess(nz.text, nz.options), !.pc = "tokens"]
    /\ UNCHANGED <<status, is_configured, config, graph, task, lastWriter, run, rt, bm25vars>>

\* the tokens, rejoined by whitespace, are tokenized again with the same
\* options
Renormalize ==
    /\ nz.pc = "tokens"
    /\ nz' = [nz EXCEPT !.again = preprocess(join(nz.tokens), nz.options), !.pc = "again"]
    /\ UNCHANGED <<status, is_configured, config, graph, task, lastWriter, run, rt, bm25vars>>

----------------------------------------------------------------------------
\* Specifications

\* the lexical index with no document and no rebuild
IdleBM25 == InitBM25 /\ population = <<>>

Init ==
    /\ InitAgent
    /\ run = IdleRun
    /\ rt = IdleRt
    /\ nz = IdleNz
    /\ IdleBM25

Next ==
    \/ \E v \in {"ON", "OFF"} : SetStatus(v)
    \/ \E i \in Tasks, force \in BOOLEAN : ConfigureCall(i, force)
    \/ \E i \in Tasks : ConfigureReturn(i)
    \/ \E i \in Tasks : ConfigureFail(i)
    \/ BuildGraph
    \/ \E i \in Tasks : RestartCall(i)
    \/ \E i \in Tasks : RestartBegin(i)
    \/ \E i \in Tasks : RestartConfigured(i)
    \/ \E i \in Tasks : RestartConfigureFail(i)
    \/ \E i \in Tasks : RestartBuild(i)
    \/ \E i \in Tasks : RestartFinish(i)
    \/ \E i \in Tasks : SyncCall(i)
    \/ \E i \in Tasks : SyncReturn(i)
    \/ \E i \in Tasks : SyncFail(i)
    \/ \E i \in Tasks : stream(i)
    \/ \E i \in Tasks : astream(i)
    \/ \E i \in Tasks : get_state_history(i)
    \/ \E i \in Tasks : get_state(i)
    \/ \E i \in Tasks : TurnFinish(i)
    \/ \E i \in Tasks : Release(i)

Spec == Init /\ [][Next]_vars

\* The steps by which a call that has started goes on: the event loop resumes
\* a coroutine once the call it awaits has returned or raised, and the
\* consumer of restart() iterates the generator to its end. Nothing obliges a
\* caller to start a new operation or to use the status setter.
Continue(i) ==
    \/ ConfigureReturn(i) \/ ConfigureFail(i)
    \/ RestartBegin(i)
    \/ RestartConfigured(i) \/ RestartConfigureFail(i)
    \/ RestartBuild(i)
    \/ RestartFinish(i)
    \/ SyncReturn(i) \/ SyncFail(i)
    \/ TurnFinish(i)
    \/ Release(i)

SpecLive == Init /\ [][Next]_vars /\ \A i \in Tasks : WF_vars(Continue(i))

\* A turn starts on a graph compiled from some configuration while the
\* configurer exposes a configuration that may have been reloaded since.
InitGraph ==
    /\ status = "ON"
    /\ is_configured = TRUE
    /\ config \in Configs
    /\ \E built \in Configs : graph = build_graph(built)
    /\ task = [i \in Tasks |-> IdleTask]
    /\ lastWriter = <<"init", 0>>
    /\ \E in \in TurnInputs :
            run = [IdleRun EXCEPT !.graph = graph, !.node = START, !.pc = "ready",
                                  !.input = in.messages, !.messages = in.messages,
                                  !.attachment = in.attachment]
    /\ rt = IdleRt
    /\ nz = IdleNz
    /\ IdleBM25

NextGraph ==
    \/ Route
    \/ NodeInvoke
    \/ \E k \in 0..MaxToolCalls : ModelReturn(k)
    \/ ModelFail
    \/ ToolsRun

SpecGraph == InitGraph /\ [][NextGraph]_vars

InitRouting ==
    /\ InitAgent
    /\ run = IdleRun
    /\ rt \in [state : RoutingInputs, result : {"none"}]
    /\ nz = IdleNz
    /\ IdleBM25

NextRouting == ApplyRouting

SpecRouting == InitRouting /\ [][NextRouting]_vars

InitBM25Spec ==
    /\ InitAgent
    /\ run = IdleRun
    /\ rt = IdleRt
    /\ nz = IdleNz
    /\ InitBM25

NextBM25 ==
    \/ \E p \in Rebuilds, cfg \in BM25Configurations : RebuildCall(p, cfg)
    \/ \E p \in Rebuilds : EmbeddingsReturn(p)
    \/ \E p \in Rebuilds : EmbeddingsFail(p)
    \/ \E p \in Rebuilds : DocsLoaded(p)
    \/ \E p \in Rebuilds : DocsFail(p)
    \/ \E p \in Rebuilds : GatherReturn(p)
    \/ \E p \in Rebuilds : GatherFail(p)
    \/ \E t \in pending : Bookkeeping(t)
    \/ \E t \in pending : BookkeepingFail(t)
    \/ Tick
    \/ DocumentsDeleted
    \/ \E p \in Rebuilds : ReleaseRebuild(p)

SpecBM25 == InitBM25Spec /\ [][NextBM25]_vars

InitNormalize ==
    /\ InitAgent
    /\ run = IdleRun
    /\ rt = IdleRt
    /\ IdleBM25
    /\ nz \in [text : Texts, options : NormalizeOptions,
               tokens : {<<>>}, again : {<<>>}, pc : {"text"}]

NextNormalize ==
    \/ Normalize
    \/ Renormalize

SpecNormalize == InitNormalize /\ [][NextNormalize]_vars

----------------------------------------------------------------------------
\* Claims C1..C10

\* Steps of Spec, recognised from the two states of a task
TurnStarts(i) == task[i].pc = "idle" /\ task'[i].op = "turn"
TurnPasses(i) == TurnStarts(i) /\ task'[i].pc # "failed"
FirstYield(i) == task[i].pc = "idle" /\ task'[i].op = "restart"
ThirdYield(i) == task[i].op = "restart" /\ task[i].pc = "y1" /\ task'[i].pc = "y2"
Rebuilding(j) == task[j].op = "sync_bm25" /\ task[j].pc = "rebuilding"

\* C1: for every non-empty history the routing function returns
\* suggest_questions when the last message is not a human message or is a
\* human message made of whitespace only, and query_or_respond otherwise; the
\* result is a function of the last message alone (not of the attachment or
\* of the earlier messages).
C1_EntryRouting ==
    rt.result # "none" =>
        LET last == Last(rt.state.messages)
            blank == \A k \in 1..Len(last.content) : last.content[k] = " "
        IN  rt.result = IF last.kind # "human" \/ blank
                        THEN "suggest_questions"
                        ELSE "query_or_respond"

\* C1 witness: a two-message history with an attachment whose last message is
\* a human message of whitespace only has been routed to suggest_questions.
C1_Witness ==
    /\ rt.result = "suggest_questions"
    /\ Len(rt.state.messages) = 2
    /\ rt.state.attachment # NoAttachment
    /\ Last(rt.state.messages).kind = "human"
    /\ Len(Last(rt.state.messages).content) > 0
    /\ rt.state.messages[1].kind = "human"
    /\ rt.state.messages[1].content = <<"a">>

\* C2: a turn-serving operation whose body starts while status is OFF or
\* RESTART ends with the guard's error and never reads or uses the graph.
C2_NotReadyWhenOffOrRestart ==
    [][\A i \in Tasks :
        (TurnStarts(i) /\ status \in {"OFF", "RESTART"}) =>
            /\ task'[i].pc = "failed"
            /\ task'[i].err \in {MsgNotConfigured, MsgNoGraph, MsgOff, MsgRestarting}
            /\ task'[i].graph = NoGraph]_vars

\* C2 witness: with the agent configured and its graph built, a turn was
\* refused because the agent is restarting and another because it is off.
C2_Witness ==
    /\ is_configured
    /\ graph # NoGraph
    /\ \E i, j \in Tasks :
        /\ task[i].op = "turn" /\ task[i].pc = "failed" /\ task[i].err = MsgRestarting
        /\ task[j].op = "turn" /\ task[j].pc = "failed" /\ task[j].err = MsgOff

C4_Original ==
    [][\A i \in Tasks :
        /\ FirstYield(i) => status = "ON"
        /\ ThirdYield(i) => status' = "ON"]_vars

\* C4 amended: status is ON right after the last snapshot of every restart();
\* the first snapshot is yielded without status being read or assigned, so
\* right before it status is whatever it was when restart() was called.
C4_Amended ==
    [][\A i \in Tasks :
        /\ FirstYield(i) => status' = status
        /\ ThirdYield(i) => status' = "ON"]_vars

\* C4 witness: a restart() has yielded its last snapshot and status is ON.
C4_Witness ==
    \E i \in Tasks :
        /\ task[i].op = "restart"
        /\ task[i].pc = "y2"
        /\ Len(events(i)) = 3
        /\ status = "ON"

\* C5 as stated: no turn that has passed the guard is executing while a
\* sync_bm25 rebuild is in progress.
C5_Original ==
    \A i, j \in Tasks :
        ~(task[i].op = "turn" /\ task[i].pc = "running" /\ Rebuilding(j))

\* C5 amended: no turn passes the guard during a sync_bm25 rebuild as long as
\* that sync_bm25 is the last operation to have assigned status (a turn that
\* passed the guard earlier may still be executing during the rebuild).
C5_Amended ==
    [][\A i, j \in Tasks :
        (TurnPasses(i) /\ Rebuilding(j)) => lastWriter # <<"task", j>>]_vars

\* C5 witness: with the agent ready, a turn was refused while a sync_bm25
\* rebuild is in progress.
C5_Witness ==
    /\ is_configured
    /\ graph # NoGraph
    /\ \E i, j \in Tasks :
        /\ Rebuilding(j)
        /\ lastWriter = <<"task", j>>
        /\ task[i].op = "turn" /\ task[i].pc = "failed" /\ task[i].err = MsgRestarting

\* C6 as stated, for a sync_bm25 that is the last operation to have assigned
\* status: status is RESTART while its rebuild runs and ON once it has ended
\* (returned or raised).
C6_Original ==
    \A j \in Tasks :
        (task[j].op = "sync_bm25" /\ lastWriter = <<"task", j>>) =>
            /\ task[j].pc = "rebuilding" => status = "RESTART"
            /\ task[j].pc \in {"done", "failed"} => status = "ON"

\* C7: on every start of a turn-serving operation the guard decides before the
\* graph is read; the call goes on exactly when the agent is configured, the
\* graph is built and status is neither OFF nor RESTART, and otherwise it
\* fails with one of four pairwise different messages, each telling a violated
\* condition.
C7_Guard ==
    [][\A i \in Tasks :
        TurnStarts(i) =>
            /\ task'[i].pc # "failed" <=>
                    (is_configured /\ graph # NoGraph /\ status \notin {"OFF", "RESTART"})
            /\ task'[i].pc # "failed" => task'[i].err = Available /\ task'[i].graph = graph
            /\ task'[i].pc = "failed" =>
                    /\ task'[i].graph = NoGraph
                    /\ task'[i].err \in {MsgNotConfigured, MsgNoGraph, MsgOff, MsgRestarting}
                    /\ task'[i].err = MsgNotConfigured => ~is_configured
                    /\ task'[i].err = MsgNoGraph => graph = NoGraph
                    /\ task'[i].err = MsgOff => status = "OFF"
                    /\ task'[i].err = MsgRestarting => status = "RESTART"
            /\ Cardinality({MsgNotConfigured, MsgNoGraph, MsgOff, MsgRestarting}) = 4]_vars

\* C7 witness: a turn was refused because the graph is not built while the
\* agent is configured, and another turn is running.
C7_Witness ==
    \E i, j \in Tasks :
        /\ task[i].op = "turn" /\ task[i].pc = "failed" /\ task[i].err = MsgNoGraph
        /\ task[j].op = "turn" /\ task[j].pc = "running"

\* the nodes reachable from node n in graph g
RECURSIVE ReachFrom(_, _)
ReachFrom(g, seen) ==
    LET step == {e[2] : e \in {e \in g.edges : e[1] \in seen}}
                  \cup {b[3] : b \in {b \in g.branches : b[1] \in seen}}
    IN  IF step \subseteq seen THEN seen ELSE ReachFrom(g, seen \cup step)

\* C8: the graph build_graph installs has tools_1 reachable from
\* query_or_respond and tools_2 reachable from suggest_questions exactly when
\* the configurer's tool set was a non-empty list at the call; with None or an
\* empty list it has no tool node and no edge or branch that names one.
C8_ToolsTopology ==
    graph # NoGraph =>
        LET nonempty == ~graph.built_for.none /\ graph.built_for.tools # {}
        IN  /\ nonempty <=> "tools_1" \in ReachFrom(graph, {"query_or_respond"})
            /\ nonempty <=> "tools_2" \in ReachFrom(graph, {"suggest_questions"})
            /\ nonempty <=> ToolNodes \cap ReachFrom(graph, {START}) # {}
            /\ ~nonempty =>
                /\ graph.nodes \cap ToolNodes = {}
                /\ \A e \in graph.edges : e[1] \notin ToolNodes /\ e[2] \notin ToolNodes
                /\ \A b \in graph.branches : b[2] # "tools" /\ b[3] \notin ToolNodes

\* C8 witness: a graph with tool nodes was replaced by one built for an empty
\* tool list, during a restart().
C8_Witness ==
    /\ graph # NoGraph
    /\ graph.built_for = [none |-> FALSE, tools |-> {}]
    /\ \E i \in Tasks : task[i].op = "restart" /\ task[i].pc = "y2"
    /\ \E j \in Tasks : task[j].op = "turn" /\ task[j].pc = "running"
                          /\ task[j].graph.nodes \cap ToolNodes # {}

\* Steps of SpecGraph
ModelReplies == run.pc = "model" /\ run'.pc \in {"ready", "ended"}
ToolsOf(n) == IF n = "query_or_respond" THEN "tools_1" ELSE "tools_2"

\* the graph the turn runs on was built for the tools configured now
UpToDate == run.graph.built_for = [none |-> config.tools_none, tools |-> config.tools]

\* C9: in a turn with an attachment and no recognition tool (on a graph that
\* is up to date with the configuration), every prompt chosen is the fixed
\* refusal, a tool node is never entered, and the turn ends with exactly one
\* message appended to its input.
C9_RefusalWithoutTools ==
    (run.attachment # NoAttachment /\ ~config.recognizer /\ UpToDate) =>
        /\ run.prompt \in {"none", Refusal}
        /\ run.node \notin ToolNodes
        /\ run.tool_runs = 0
        /\ run.pc = "ended" => Len(run.messages) = Len(run.input) + 1

\* C10 as stated (for replies given while tools are configured): a turn ends
\* exactly when the node's reply carries no tool call; a reply with a tool
\* call always leads to a tool node and one without always leads to the end.
C10_Original ==
    [][(ModelReplies /\ config.tools # {}) =>
        LET reply == Last(run'.messages)
        IN  /\ reply.tool_calls > 0 => run'.node \in ToolNodes
            /\ reply.tool_calls = 0 => run'.node = END /\ run'.pc = "ended"]_vars

\* C10 amended: on a graph built with tools a reply with a tool call leads to
\* the tool node of the node that produced it and a reply without one leads to
\* the end; on a graph built without tools the turn ends after the node's
\* reply, whatever it carries. A turn ends only on the reply of a node.
C10_Amended ==
    [][/\ ModelReplies =>
            LET reply == Last(run'.messages)
            IN  /\ Len(run'.messages) = Len(run.messages) + 1
                /\ IF run.graph.nodes \cap ToolNodes # {}
                   THEN /\ reply.tool_calls > 0 =>
                                run'.node = ToolsOf(run.node) /\ run'.pc = "ready"
                        /\ reply.tool_calls = 0 => run'.node = END /\ run'.pc = "ended"
                   ELSE run'.node = END /\ run'.pc = "ended"
       /\ (run.pc # "ended" /\ run'.pc = "ended") => ModelReplies]_vars

\* C10 witness: after a first round through its tool node, suggest_questions
\* produced a second reply with a tool call and the run is at tools_2 again.
C10_Witness ==
    /\ run.calls = 2
    /\ run.tool_runs = 1
    /\ run.node = "tools_2"
    /\ Last(run.messages).tool_calls > 0

----------------------------------------------------------------------------
\* Claims C11..C20

\* the node the entry routing chose for this turn's input
EntryNode == _routing_function([messages |-> run.input, attachment |-> run.attachment])

\* C11: the tool loop never crosses branches. A tool node hands control to
\* the node it belongs to (tools_1 to query_or_respond, tools_2 to
\* suggest_questions), and within one turn the run is only ever at START, at
\* the node chosen at entry, at that node's own tool node, or at the end.
C11_NoCrossing ==
    [][/\ run.node = "tools_1" => run'.node = "query_or_respond"
       /\ run.node = "tools_2" => run'.node = "suggest_questions"
       /\ run'.node \in {START, END, EntryNode, ToolsOf(EntryNode)}]_vars

\* C11 witness: the entry chose query_or_respond, its reply carried a tool
\* call, tools_1 ran and control is back at query_or_respond.
C11_Witness ==
    /\ EntryNode = "query_or_respond"
    /\ run.node = "query_or_respond"
    /\ run.pc = "ready"
    /\ run.tool_runs = 1
    /\ Last(run.messages).kind = "tool"

\* the graph of the turn was built while no tool was configured
BuiltWithoutTools == run.graph.built_for.none \/ run.graph.built_for.tools = {}

\* C12: on a graph built with no tools (None or an empty list) a turn is the
\* entry routing to query_or_respond or suggest_questions, one visit of that
\* node with one model call whose reply ends the turn, and no tool node is
\* ever entered.
C12_NoTools ==
    [][BuiltWithoutTools =>
        /\ run'.node \notin ToolNodes
        /\ run'.tool_runs = 0
        /\ run'.calls <= 1
        /\ (run.node = START /\ run'.node # START) =>
                run'.node = EntryNode /\ run'.calls = 0
        /\ ModelReplies =>
                /\ run'.node = END /\ run'.pc = "ended"
                /\ run'.calls = 1
                /\ Len(run'.messages) = Len(run.input) + 1
        /\ (run.pc # "ended" /\ run'.pc = "ended") => ModelReplies]_vars

\* C12 witness: on a graph built for an empty tool list, the only reply of
\* the turn carried a tool call and the turn ended all the same.
C12_Witness ==
    /\ ~run.graph.built_for.none
    /\ run.graph.built_for.tools = {}
    /\ run.pc = "ended"
    /\ run.calls = 1
    /\ Last(run.messages).tool_calls > 0

\* C13 as stated: the status reported by the status property is always one
\* of ON, OFF, RESTARTING, RESTARTED.
C13_Original == AgentStatus.status \in {"ON", "OFF", "RESTARTING", "RESTARTED"}

\* C13 amended: the status reported by the status property is always one of
\* ON, OFF, RESTART; RESTARTING and RESTARTED occur only as the status of
\* the progress snapshots of restart().
C13_Amended ==
    /\ AgentStatus.status \in {"ON", "OFF", "RESTART"}
    /\ \A i \in Tasks : \A k \in 1..Len(events(i)) :
            events(i)[k].status \in {"RESTARTING", "RESTARTED"}

\* C13 witness: a restart() is awaiting its reconfigure, its first snapshot
\* said RESTARTING and the status property reports RESTART.
C13_Witness ==
    \E i \in Tasks :
        /\ task[i].op = "restart" /\ task[i].pc = "configuring"
        /\ events(i)[1].status = "RESTARTING"
        /\ AgentStatus.status = "RESTART"

\* a restart() between the emission of its first and of its last snapshot
InWindow(j) == task[j].op = "restart" /\ task[j].pc \in {"y0", "configuring", "y1"}

\* C14 as stated, its second half, with no other operation assigning status
\* meanwhile: every turn-serving call made between the emission of the first
\* and of the last snapshot of a restart() fails fast.
C14_Original ==
    [][\A j \in Tasks :
        (InWindow(j) /\ lastWriter \in {<<"init", 0>>, <<"task", j>>}) =>
            \A i \in Tasks : TurnStarts(i) => task'[i].pc = "failed"]_vars

\* C14 amended: a restart() assigns RESTART when it is resumed after its first
\* snapshot, ON when it emits its last one, and assigns status nowhere else;
\* from that resumption until the last snapshot, as long as this restart is
\* the last operation to have assigned status, status reads RESTART and every
\* turn-serving call fails fast.
C14_Amended ==
    [][\A j \in Tasks :
        /\ (task[j].op = "restart" /\ task[j].pc \in {"configuring", "y1"}
                /\ lastWriter = <<"task", j>>) =>
              /\ status = "RESTART"
              /\ \A i \in Tasks : TurnStarts(i) => task'[i].pc = "failed"
        /\ (task[j].op = "restart" /\ task'[j] # task[j]) =>
              IF task[j].pc = "y0" THEN status' = "RESTART"
              ELSE IF task[j].pc = "y1" THEN status' = "ON"
              ELSE status' = status]_vars

\* C14 witness: a turn-serving call was refused with "restarting" while a
\* restart() that assigned RESTART last is awaiting its reconfigure.
C14_Witness ==
    \E i, j \in Tasks :
        /\ task[j].op = "restart" /\ task[j].pc = "configuring"
        /\ lastWriter = <<"task", j>>
        /\ task[i].op = "turn" /\ task[i].pc = "failed" /\ task[i].err = MsgRestarting

\* C15: RESTART is transient. With every started operation run on to its end
\* and the status setter never used, whenever status is RESTART (assigned by
\* restart or sync_bm25, its only writers), status is ON at some later point.
C15_Transient ==
    \/ <>(lastWriter = <<"setter", 0>>)
    \/ (status = "RESTART") ~> (status = "ON")

\* Steps of configure() in task i
ConfigureStarts(i) == task[i].pc = "idle" /\ task'[i].op = "configure"
CollaboratorCompletes(i) ==
    \/ task[i].op = "configure" /\ task[i].pc = "awaiting" /\ task'[i].pc = "done"
    \/ task[i].op = "restart" /\ task[i].pc = "configuring" /\ task'[i].pc = "y1"

\* C16: configure is idempotent unless forced. A configure(force=False) on a
\* configured agent returns without awaiting the collaborator and changes no
\* state of the agent; a configure on an unconfigured agent or with force=True
\* awaits the collaborator, once; the agent is marked configured only in the
\* step in which a collaborator call completes, and stays as it was when the
\* collaborator raises.
C16_Idempotent ==
    [][/\ \A i \in Tasks :
            /\ ConfigureStarts(i) =>
                  IF is_configured /\ ~task'[i].force
                  THEN /\ task'[i].pc = "skipped"
                       /\ UNCHANGED <<status, is_configured, config, graph>>
                  ELSE task'[i].pc = "awaiting"
            /\ (task[i].op = "configure" /\ task[i].pc # "awaiting") =>
                  task'[i].pc # "awaiting"
            /\ (task[i].op = "configure" /\ task[i].pc = "awaiting"
                    /\ task'[i].pc = "done") => is_configured'
            /\ (task[i].op = "configure" /\ task[i].pc = "awaiting"
                    /\ task'[i].pc = "failed") => UNCHANGED <<is_configured, config>>
       /\ is_configured' # is_configured =>
            is_configured' /\ \E i \in Tasks : CollaboratorCompletes(i)]_vars

\* C16 witness: on a configured agent one configure(force=False) has returned
\* without the collaborator while a configure(force=True) awaits it.
C16_Witness ==
    /\ is_configured
    /\ \E i, j \in Tasks :
        /\ task[i].op = "configure" /\ task[i].pc = "skipped" /\ ~task[i].force
        /\ task[j].op = "configure" /\ task[j].pc = "awaiting" /\ task[j].force

\* C17: build_graph always follows a successful configure; whenever the
\* graph has been built, the agent is configured.
C17_BuiltImpliesConfigured == graph # NoGraph => is_configured

\* a step of rebuild p
RebuildSteps(p) == rebuild'[p] # rebuild[p]

\* C18: a rebuild is a no-op when the document population is empty. The call
\* that finds db_docs empty returns at once, and no step of a call up to and
\* including that return changes the active index, the stored configuration,
\* the last-build timestamp or the set of documents marked (nor does it
\* create a bookkeeping task).
C18_EmptyNoOp ==
    [][\A p \in Rebuilds :
        /\ (rebuild[p].pc = "loading" /\ RebuildSteps(p) /\ Len(population) = 0) =>
                rebuild'[p].pc \in {"noop", "failed"}
        /\ (RebuildSteps(p) /\ rebuild'[p].pc \in {"embedding", "loading", "noop"}) =>
                UNCHANGED <<retriever, bm25_config, last_sync, marked, pending>>
        /\ (rebuild[p].pc = "loading" /\ rebuild'[p].pc = "noop") =>
                Len(population) = 0]_vars

\* C18 witness: an index built earlier is active, the documents have since
\* been deleted, and a rebuild with another configuration has returned on the
\* empty population, index, configuration and timestamp being the old ones.
C18_Witness ==
    \E p \in Rebuilds :
        /\ rebuild[p].pc = "noop"
        /\ Len(population) = 0
        /\ ~retriever.none
        /\ bm25_config # rebuild[p].config
        /\ last_sync # NoTime /\ last_sync < now

\* the step in which the task group of rebuild p ends with no sub-fetch
\* having raised
GatherCompletes(p) ==
    rebuild[p].pc = "gathering" /\ RebuildSteps(p) /\ rebuild'[p].err # "fetch"

\* C19: when zero passages were gathered from both branches of a non-empty
\* population, the rebuild is a no-op; it returns with no new index installed
\* and the last-build timestamp not updated.
C19_ZeroPassagesNoOp ==
    [][\A p \in Rebuilds :
        (GatherCompletes(p) /\ Len(Gathered(rebuild[p].db_docs)) = 0) =>
            /\ rebuild'[p].pc = "noop"
            /\ UNCHANGED <<retriever, bm25_config, last_sync>>]_vars

\* the passages of document d in a sequence of passages
PassagesOf(passages, d) ==
    LET From(x) == x[1] = d
    IN  SelectSeq(passages, From)

\* C20: in a rebuild whose population holds an EXTERNAL document naming a
\* store that is not configured, that document is skipped without failing the
\* rebuild; the rebuild completes and the new index holds, for every EXTERNAL
\* document, exactly its chunks when its store is configured and nothing
\* when it is not.
C20_ExternalSkip ==
    [][\A p \in Rebuilds :
        LET docs == rebuild[p].db_docs
        IN  (/\ GatherCompletes(p)
             /\ \E d \in 1..Len(docs) :
                    docs[d].source = EXTERNAL /\ docs[d].embed_to_vs \notin ConfiguredStores)
            => /\ rebuild'[p].pc = "done"
               /\ \A d \in 1..Len(docs) :
                    docs[d].source = EXTERNAL =>
                        PassagesOf(retriever'.documents, d) =
                            IF docs[d].embed_to_vs \in ConfiguredStores
                            THEN [c \in 1..docs[d].chunks |-> <<d, c>>]
                            ELSE <<>>]_vars

\* the UPLOADED documents of docs whose file lookup returns None
Unresolved(docs) ==
    {d \in 1..Len(docs) : docs[d].source = UPLOADED /\ ~docs[d].resolves}

\* C21: a rebuild whose population holds a single unresolvable UPLOADED file
\* excludes that file and is not aborted by it; the rebuild completes and
\* the new index is built from the files that resolved and the EXTERNAL
\* chunks.
C21_UnresolvedSkip ==
    [][\A p \in Rebuilds :
        LET docs == rebuild[p].db_docs
        IN  (GatherCompletes(p) /\ Cardinality(Unresolved(docs)) = 1)
            => /\ rebuild'[p].pc = "done"
               /\ \A d \in Unresolved(docs) : PassagesOf(retriever'.documents, d) = <<>>
               /\ retriever'.documents = Gathered(docs)]_vars

\* the step in which rebuild p installs its index
Installs(p) == rebuild[p].pc = "gathering" /\ rebuild'[p].pc = "done"

\* C22: the active index is replaced only wholesale and only by a successful
\* rebuild. Every step that changes the index is the completing step of a
\* rebuild and leaves the index made of all the passages that rebuild
\* gathered, with its k; a step in which a rebuild fails, at whatever point,
\* leaves the index, the stored configuration and the last-build timestamp
\* as they were.
C22_WholesaleReplace ==
    [][/\ retriever' # retriever =>
            \E p \in Rebuilds :
                /\ Installs(p)
                /\ retriever' = [none |-> FALSE,
                                 documents |-> Gathered(rebuild[p].db_docs),
                                 k |-> rebuild[p].config.k]
       /\ \A p \in Rebuilds :
            (RebuildSteps(p) /\ rebuild'[p].pc = "failed") =>
                UNCHANGED <<retriever, bm25_config, last_sync>>]_vars

\* C22 witness: an index built earlier is active and a later rebuild, with
\* another configuration, has failed in a sub-fetch of its task group; the
\* index, the configuration and the timestamp are the earlier ones.
C22_Witness ==
    \E p \in Rebuilds :
        /\ rebuild[p].pc = "failed" /\ rebuild[p].err = "fetch"
        /\ ~retriever.none
        /\ retriever.documents = Gathered(rebuild[p].db_docs)
        /\ retriever.k # rebuild[p].config.k
        /\ bm25_config # rebuild[p].config
        /\ last_sync # NoTime /\ last_sync < now

\* C23: bm25_last_sync is absent exactly as long as no index has been built;
\* the completing step of every successful rebuild sets it to the time of
\* that step, and no other step (a no-op return, a failure, the bookkeeping
\* task) changes it.
C23_LastSync ==
    /\ [](last_sync = NoTime <=> retriever.none)
    /\ [][/\ \A p \in Rebuilds : Installs(p) => last_sync' = now
          /\ last_sync' # last_sync => \E p \in Rebuilds : Installs(p)
          /\ \A p \in Rebuilds :
                (RebuildSteps(p) /\ rebuild'[p].pc \in {"noop", "failed"}) =>
                    last_sync' = last_sync]_vars

\* C23 witness: a second successful rebuild has completed at a later time
\* than the first; the timestamp is the time of the second.
C23_Witness ==
    \E p, q \in Rebuilds :
        /\ p # q
        /\ rebuild[p].pc = "done" /\ rebuild[q].pc = "done"
        /\ retriever.k = rebuild[q].config.k
        /\ retriever.k # rebuild[p].config.k
        /\ last_sync = now /\ last_sync = MaxTime

\* the documents of docs that contributed a passage
Contributors(docs) ==
    {d \in 1..Len(docs) : PassagesOf(Gathered(docs), d) # <<>>}

\* C24: the completing step of a successful rebuild leaves a bookkeeping task
\* that covers every document that contributed a passage, and completes
\* without waiting for it. When the task runs, it marks the documents it
\* covers that are still in the repository; when its write fails, nothing is
\* marked, and in both cases the index, the stored configuration, the
\* last-build timestamp and the finished rebuild stay as they are.
C24_Bookkeeping ==
    [][/\ \A p \in Rebuilds :
            Installs(p) =>
                \E t \in pending' :
                    t.by = p /\ Contributors(rebuild[p].db_docs) \subseteq t.ids
       /\ \A t \in pending \ pending' :
            /\ \/ marked' = marked \cup {d \in t.ids : d <= Len(population)}
               \/ marked' = marked
            /\ UNCHANGED <<retriever, bm25_config, last_sync, rebuild>>]_vars

\* C24 witness: a rebuild has completed, its bookkeeping task has ended
\* without marking any document of the repository, and the index and the
\* timestamp it installed are in place.
C24_Witness ==
    \E p \in Rebuilds :
        /\ rebuild[p].pc = "done"
        /\ pending = {}
        /\ Len(population) > 0 /\ marked = {}
        /\ retriever = [none |-> FALSE, documents |-> Gathered(rebuild[p].db_docs),
                        k |-> rebuild[p].config.k]
        /\ last_sync # NoTime

Invokes(n) == run.pc = "ready" /\ run.node = n /\ run'.pc = "model"

\* C26: whenever the suggestion node runs with no attachment it selects the
\* fixed processing-error prompt, whatever the kind of the last message and
\* whether or not a recognition tool is available; and the suggestion node
\* never selects a prompt made of the configured respond prompt.
C26_SuggestNoAttachment ==
    [][Invokes("suggest_questions") =>
        /\ run.attachment = NoAttachment => run'.prompt = ProcessingError
        /\ run'.prompt \notin {RespondPlain, RespondAttachment}]_vars

\* C26 witness: the suggestion node has chosen the processing-error prompt
\* on a history ending with a tool message, a recognition tool being
\* available.
C26_Witness ==
    /\ run.pc = "model" /\ run.node = "suggest_questions"
    /\ run.attachment = NoAttachment
    /\ Last(run.messages).kind = "tool"
    /\ config.recognizer
    /\ run.prompt = ProcessingError

\* C27: a model call that fails ends the run in the failed node: the history
\* is the one the node was entered with (the node appends no message), and
\* the run takes no further step (no retry, no other node).
C27_ModelFailure ==
    [][/\ (run.pc = "model" /\ run'.pc = "failed") =>
            /\ run'.messages = run.messages
            /\ run'.node = run.node
            /\ run'.calls = run.calls
       /\ run.pc = "failed" => run' = run]_vars

\* C27 witness: the model call of the second visit of a node has failed;
\* the history holds the first reply and the tool result, and nothing of
\* the failed visit.
C27_Witness ==
    /\ run.pc = "failed"
    /\ run.calls = 2 /\ run.tool_runs = 1
    /\ Len(run.messages) = Len(run.input) + 2
    /\ Last(run.messages).kind = "tool"

\* C28: the respond node tests the attachment before the kind of the last
\* message. Whenever an attachment is present and a recognition tool is
\* available it selects the attachment-instruction prompt, on every visit;
\* it selects the tool-result prompt only when no attachment is present
\* (and the last message is a tool message).
C28_AttachmentFirst ==
    [][Invokes("query_or_respond") =>
        /\ (run.attachment # NoAttachment /\ config.recognizer) =>
                run'.prompt = RespondAttachment
        /\ run'.prompt = RespondToolResult =>
                (run.attachment = NoAttachment /\ Last(run.messages).kind = "tool")]_vars

\* C28 witness: the respond node, visited again right after the tools node
\* returned a tool result, has chosen the attachment-instruction prompt.
C28_Witness ==
    /\ run.pc = "model" /\ run.node = "query_or_respond"
    /\ run.tool_runs = 1
    /\ Last(run.messages).kind = "tool"
    /\ run.attachment # NoAttachment /\ config.recognizer
    /\ run.prompt = RespondAttachment

\* task i is a restart past its first snapshot and before its last, or a
\* sync_bm25 awaiting its rebuild
Maintaining(i) ==
    \/ task[i].op = "restart" /\ task[i].pc \in {"configuring", "y1"}
    \/ Rebuilding(i)

\* C29: under any interleaving of restart, sync_bm25 and setter calls, status
\* reads RESTART in every state in which a restart (past its first snapshot
\* and before its last) or a sync_bm25 rebuild is in progress, so that no
\* turn passes the guard while a maintenance operation is running.
C29_MaintenanceExcludesTurns ==
    (\E i \in Tasks : Maintaining(i)) => status = "RESTART"

\* C30: once the setter has set status to OFF, status stays OFF and every
\* turn-serving call fails until the setter sets it to ON; no step of
\* restart or of sync_bm25 takes status away from OFF.
C30_OffLatched ==
    [][status = "OFF" =>
        /\ \/ status' = "OFF"
           \/ status' = "ON" /\ lastWriter' = <<"setter", 0>>
        /\ \A i \in Tasks : ~TurnPasses(i)]_vars

\* turn i is in flight: it passed the guard and its graph run has not ended
InFlight(i) == task[i].op = "turn" /\ task[i].pc = "running"

\* C31: a turn that passes the guard captures the agent's graph reference of
\* that moment and runs on it to its end. A step that replaces the agent's
\* graph (build_graph called directly or by restart) leaves the graph of
\* every turn in flight as it was, and no other step changes it either; a
\* turn started after the replacement captures the new graph.
C31_CapturedGraph ==
    [][\A i \in Tasks :
        /\ TurnPasses(i) => task'[i].graph = graph /\ graph' = graph
        /\ (InFlight(i) /\ task'[i].op = "turn") => task'[i].graph = task[i].graph]_vars

\* C31 witness: a turn is in flight on a graph with tool nodes, the agent's
\* graph has been replaced since by one without them, and a turn started
\* after the replacement is in flight on the new graph.
C31_Witness ==
    \E i, j \in Tasks :
        /\ InFlight(i) /\ InFlight(j)
        /\ task[i].graph # graph
        /\ ReachFrom(task[i].graph, {START}) \cap ToolNodes # {}
        /\ ReachFrom(graph, {START}) \cap ToolNodes = {}
        /\ task[j].graph = graph

\* C32: the active index and the last-build timestamp are installed together.
\* Every step that changes either of them is the completing step of one
\* rebuild, which leaves the index of that rebuild, its configuration and
\* the time of that step, whatever other rebuilds are in flight; and in
\* every reachable state a timestamp is present only if an index is.
C32_InstalledTogether ==
    /\ [](last_sync # NoTime => ~retriever.none)
    /\ [][(retriever' # retriever \/ last_sync' # last_sync) =>
            \E p \in Rebuilds :
                /\ Installs(p)
                /\ retriever'.documents = Gathered(rebuild[p].db_docs)
                /\ retriever'.k = rebuild[p].config.k
                /\ bm25_config' = rebuild[p].config
                /\ last_sync' = now]_vars

\* C32 witness: two rebuilds with different configurations were gathering at
\* the same time; one has installed its index, its configuration and its
\* timestamp while the other is still gathering.
C32_Witness ==
    \E p, q \in Rebuilds :
        /\ rebuild[p].pc = "done" /\ rebuild[q].pc = "gathering"
        /\ rebuild[p].config # rebuild[q].config
        /\ retriever.k = rebuild[p].config.k
        /\ bm25_config = rebuild[p].config
        /\ last_sync = now /\ now = MaxTime
        /\ Cardinality(pending) = 1

\* C33: the documents marked as lexically indexed after a successful rebuild
\* are only those that contributed passages to the index; a document skipped
\* for an unconfigured store, or whose file did not resolve, is never marked.
C33_OnlyContributorsMarked ==
    [][marked' \subseteq marked \cup Contributors(population)]_vars

====
